---- MODULE Spec2Model ----
(***************************************************************************)
(* The run pipeline of src/app.py (run_upload and its helpers): the HTTP   *)
(* handler that stores an upload in a per-run directory, bootstraps its    *)
(* dependencies, executes the entrypoint under limits and a timeout,       *)
(* renders and truncates the output and publishes two artifacts.           *)
(*                                                                         *)
(* Text is a sequence of Unicode code points; a stored file is the         *)
(* sequence of its UTF-8 bytes.  A path is the sequence of its components  *)
(* from the filesystem root.  Each blocking call of the handler is one     *)
(* action; requests are served by concurrent workers.                      *)
(***************************************************************************)
EXTENDS Integers, Sequences, FiniteSets, TLC

\* ---------------------------------------------------------------- config

\* MAX_OUTPUT_BYTES (default 200000), scaled down so that texts around the
\* ceiling are short sequences.
MAX_OUTPUT_BYTES == 4

\* MAX_RUN_SECONDS (default 30): the wall-clock timeout and the CPU soft limit.
MAX_RUN_SECONDS == 30

\* The largest exit code a child process returns.
MaxExitCode == 2

\* The request workers that may be serving a request at the same time.  Worker
\* w1 serves a request drawn from the whole input space below; worker w2
\* serves a concurrent request drawn from a part of it.
Runs == {"w1", "w2"}

\* The values uuid.uuid4().hex[:12] may return.
RunIds == {"id1", "id2"}

\* The values the draw of worker r may return: w1 draws either value, w2 draws
\* "id1", so the two requests either collide on "id1" or get distinct ids.
RunIdsOf(r) == IF r = "w1" THEN RunIds ELSE {"id1"}

\* The configured API_KEY, "" when the variable is unset.
ApiKeys == {"", "secret"}

\* The token a request may carry ("" when it carries none).
Tokens == {"", "secret", "wrong"}

\* ------------------------------------------------------------------ text

\* The code points of the names that are compared or matched as text.
Chars ==
  [n \in {"main.py", "app.py", "a.py", "b.py", "c.py", "requirements.txt",
          "sub", ".venv", "output.txt", "bundle.zip", "proj.zip", "out.dat"} |->
     CASE n = "main.py" -> <<109, 97, 105, 110, 46, 112, 121>>
       [] n = "app.py" -> <<97, 112, 112, 46, 112, 121>>
       [] n = "a.py" -> <<97, 46, 112, 121>>
       [] n = "b.py" -> <<98, 46, 112, 121>>
       [] n = "c.py" -> <<99, 46, 112, 121>>
       [] n = "requirements.txt" ->
            <<114, 101, 113, 117, 105, 114, 101, 109, 101, 110, 116, 115, 46, 116, 120, 116>>
       [] n = "sub" -> <<115, 117, 98>>
       [] n = ".venv" -> <<46, 118, 101, 110, 118>>
       [] n = "output.txt" -> <<111, 117, 116, 112, 117, 116, 46, 116, 120, 116>>
       [] n = "bundle.zip" -> <<98, 117, 110, 100, 108, 101, 46, 122, 105, 112>>
       [] n = "proj.zip" -> <<112, 114, 111, 106, 46, 122, 105, 112>>
       [] n = "out.dat" -> <<111, 117, 116, 46, 100, 97, 116>>]

\* "\n\n...OUTPUT_TRUNCATED..."
TRUNC_MARKER ==
  <<10, 10, 46, 46, 46, 79, 85, 84, 80, 85, 84, 95, 84, 82, 85, 78, 67, 65, 84, 69, 68, 46, 46, 46>>

\* "=== STDOUT ===\n"
HDR_STDOUT == <<61, 61, 61, 32, 83, 84, 68, 79, 85, 84, 32, 61, 61, 61, 10>>

\* "\n\n=== STDERR ===\n"
HDR_STDERR == <<10, 10, 61, 61, 61, 32, 83, 84, 68, 69, 82, 82, 32, 61, 61, 61, 10>>

\* "\n\nExitCode: "
HDR_EXIT == <<10, 10, 69, 120, 105, 116, 67, 111, 100, 101, 58, 32>>

\* "TimeoutExpired: exceeded "
TIMEOUT_PRE ==
  <<84, 105, 109, 101, 111, 117, 116, 69, 120, 112, 105, 114, 101, 100, 58, 32,
    101, 120, 99, 101, 101, 100, 101, 100, 32>>

\* " seconds.\nPartial output:\n"
TIMEOUT_MID ==
  <<32, 115, 101, 99, 111, 110, 100, 115, 46, 10, 80, 97, 114, 116, 105, 97, 108, 32,
    111, 117, 116, 112, 117, 116, 58, 10>>

\* "Exception during run:\n"
EXC_PRE ==
  <<69, 120, 99, 101, 112, 116, 105, 111, 110, 32, 100, 117, 114, 105, 110, 103, 32,
    114, 117, 110, 58, 10>>

\* str(None)
NONE_REPR == <<78, 111, 110, 101>>

\* The first line of traceback.format_exc()
TRACEBACK ==
  <<84, 114, 97, 99, 101, 98, 97, 99, 107, 32, 40, 109, 111, 115, 116, 32, 114, 101,
    99, 101, 110, 116, 32, 99, 97, 108, 108, 32, 108, 97, 115, 116, 41, 58, 10>>

\* What a child may have printed on stdout: "hi", "abcde", three times
\* U+00E9 (two bytes each), and U+20AC a U+00E9 b c.
Stdouts(r) ==
  IF r = "w1"
    THEN { <<104, 105>>, <<97, 98, 99, 100, 101>>, <<233, 233, 233>>,
           <<8364, 97, 233, 98, 99>> }
    ELSE { <<104, 105>> }

\* What a failing child printed on stderr: "boom\n".
STDERR_TEXT == <<98, 111, 111, 109, 10>>

\* str.encode("utf-8") of one code point (below U+10000).
Utf8Char(c) ==
  IF c < 128 THEN <<c>>
  ELSE IF c < 2048 THEN <<192 + (c \div 64), 128 + (c % 64)>>
  ELSE <<224 + (c \div 4096), 128 + ((c \div 64) % 64), 128 + (c % 64)>>

RECURSIVE Utf8(_)
\* Path.write_text(text, encoding="utf-8"): the bytes of the file.
Utf8(text) ==
  IF text = <<>> THEN <<>> ELSE Utf8Char(Head(text)) \o Utf8(Tail(text))

\* text[:n]
Prefix(text, n) == SubSeq(text, 1, IF n < Len(text) THEN n ELSE Len(text))

RECURSIVE Digits(_)
Digits(n) ==
  IF n < 10 THEN <<48 + n>> ELSE Digits(n \div 10) \o <<48 + (n % 10)>>

\* str(n) of an integer.
IntStr(n) == IF n < 0 THEN <<45>> \o Digits(-n) ELSE Digits(n)

RECURSIVE LexLess(_, _)
\* a < b for two strings (code point by code point, a proper prefix first).
LexLess(a, b) ==
  IF b = <<>> THEN FALSE
  ELSE IF a = <<>> THEN TRUE
  ELSE IF Head(a) # Head(b) THEN Head(a) < Head(b)
  ELSE LexLess(Tail(a), Tail(b))

\* fnmatch of a name against "*.py".
IsPy(name) ==
  LET cs == Chars[name]
  IN Len(cs) >= 3 /\ SubSeq(cs, Len(cs) - 2, Len(cs)) = <<46, 112, 121>>

\* ----------------------------------------------------------------- paths

BASE_WORKDIR == <<"tmp", "runs">>

\* sys.executable, the interpreter the server itself runs under.
SysExecutable == <<"usr", "bin", "python3">>

\* Files of the host outside the base directory.
HostFiles == { SysExecutable, <<"usr", "lib", "python3", "this.py">> }

\* Path(BASE_WORKDIR) / run_id
Workdir(id) == BASE_WORKDIR \o <<id>>

\* workdir / other: an absolute right-hand side replaces the left-hand side.
Join(base, other) == IF other.abs THEN other.parts ELSE base \o other.parts

RECURSIVE Resolve(_, _)
\* The file a path names once the kernel has followed its ".." components.
Resolve(done, rest) ==
  IF rest = <<>> THEN done
  ELSE IF Head(rest) = ".."
    THEN Resolve(IF done = <<>> THEN <<>> ELSE SubSeq(done, 1, Len(done) - 1), Tail(rest))
    ELSE Resolve(Append(done, Head(rest)), Tail(rest))

IsPrefix(p, q) == Len(p) <= Len(q) /\ SubSeq(q, 1, Len(p)) = p

\* --------------------------------------------------------------- uploads

\* request.files["file"]: the client's file name, whether its content is a
\* zip archive, and the archive's members (paths relative to the archive).
Uploads(r) ==
  IF r = "w1"
    THEN { [filename |-> "main.py", zip |-> FALSE, members |-> {}],
           [filename |-> "requirements.txt", zip |-> FALSE, members |-> {}],
           [filename |-> "proj.zip", zip |-> TRUE,
            members |-> {<<"requirements.txt">>, <<"app.py">>, <<"a.py">>}],
           [filename |-> "proj.zip", zip |-> TRUE,
            members |-> {<<"b.py">>, <<"a.py">>, <<"sub", "main.py">>}],
           [filename |-> "proj.zip", zip |-> TRUE, members |-> {<<"sub", "c.py">>}] }
    ELSE { [filename |-> "main.py", zip |-> FALSE, members |-> {}],
           [filename |-> "proj.zip", zip |-> TRUE,
            members |-> {<<"requirements.txt">>, <<"b.py">>}] }

NoEntryParam == [given |-> FALSE, abs |-> FALSE, parts |-> <<>>]

\* request.form["entry"], when the form has the field.
EntryParams(r) ==
  IF r = "w1"
    THEN { NoEntryParam,
           [given |-> TRUE, abs |-> FALSE, parts |-> <<"app.py">>],
           [given |-> TRUE, abs |-> FALSE, parts |-> <<"..", "id1", "main.py">>],
           [given |-> TRUE, abs |-> TRUE, parts |-> <<"usr", "lib", "python3", "this.py">>] }
    ELSE { NoEntryParam }

NoPath == <<>>
NoText == <<-1>>


\* ----------------------------------------------------------------- state

VARIABLES
  apiKey,      \* API_KEY
  dirs,        \* the run ids whose directory exists under BASE_WORKDIR
  fs,          \* per run id: the files below its directory, relative to it
  pc,          \* per worker: the call run_upload is about to make
  runId,       \* per worker: run_id ("" before it is drawn)
  existed,     \* per worker: whether workdir existed before workdir.mkdir
  pythonExec,  \* per worker: python_exec
  entryParam,  \* per worker: request.form["entry"] as read at line 117
  entry,       \* per worker: entry
  spawned,     \* per worker: the child processes started, in order
  bootExit,    \* per worker: the exit codes the check_call children returned
  expired,     \* per worker: whether the timeout of subprocess.run expired
  launches,    \* per worker: how many times subprocess.run was called
  child,       \* per worker: the entrypoint child: none, running, exited, killed
  program,     \* per worker: what the uploaded program does when left alone
  outcome,     \* per worker: what subprocess.run returned or raised
  rendered,    \* per worker: combined as rendered, before truncation
  stored,      \* per worker: the bytes written to output.txt
  uploads,     \* per worker: the upload_to_s3 calls made, in order
  resp,        \* per worker: the response returned
  upload,      \* per worker: request.files["file"] as saved at line 91
  manifestAtSave, \* per worker: whether requirements.txt was there after lines 90-97
  authFailed,  \* per worker: whether the comparison of line 76 failed
  argv,        \* per worker: the command line given to subprocess.run
  snapshot     \* per worker: the files shutil.make_archive put into bundle.zip

vars ==
  <<apiKey, dirs, fs, pc, runId, existed, pythonExec, entryParam, entry, spawned,
    bootExit, expired, launches, child, program, outcome, rendered, stored, uploads, resp,
    upload, manifestAtSave, authFailed, argv, snapshot>>

NoOutcome == [tag |-> "none", stdout |-> <<>>, stderr |-> <<>>, code |-> 0]
NoUpload == [filename |-> "", zip |-> FALSE, members |-> {}]
NoSnapshot == [taken |-> FALSE, files |-> {}]
NoResp == [kind |-> "none", status |-> 0, run_id |-> "", output_url |-> <<>>, bundle_url |-> <<>>]

\* jsonify({"error": ...}), status
ErrorResp(kind, status) == [NoResp EXCEPT !.kind = kind, !.status = status]

Init ==
  /\ apiKey \in ApiKeys
  /\ dirs = {}
  /\ fs = [i \in RunIds |-> {}]
  /\ pc = [r \in Runs |-> "idle"]
  /\ runId = [r \in Runs |-> ""]
  /\ existed = [r \in Runs |-> FALSE]
  /\ pythonExec = [r \in Runs |-> NoPath]
  /\ entryParam = [r \in Runs |-> NoEntryParam]
  /\ entry = [r \in Runs |-> NoPath]
  /\ spawned = [r \in Runs |-> <<>>]
  /\ bootExit = [r \in Runs |-> <<>>]
  /\ expired = [r \in Runs |-> FALSE]
  /\ launches = [r \in Runs |-> 0]
  /\ child = [r \in Runs |-> "none"]
  /\ program = [r \in Runs |-> "none"]
  /\ outcome = [r \in Runs |-> NoOutcome]
  /\ rendered = [r \in Runs |-> NoText]
  /\ stored = [r \in Runs |-> NoText]
  /\ uploads = [r \in Runs |-> <<>>]
  /\ resp = [r \in Runs |-> NoResp]
  /\ upload = [r \in Runs |-> NoUpload]
  /\ manifestAtSave = [r \in Runs |-> FALSE]
  /\ authFailed = [r \in Runs |-> FALSE]
  /\ argv = [r \in Runs |-> <<>>]
  /\ snapshot = [r \in Runs |-> NoSnapshot]

\* ------------------------------------------------------------ filesystem

\* Every file that exists; each of its prefixes is an existing directory.
AllFiles ==
  HostFiles \cup {BASE_WORKDIR} \cup {Workdir(i) : i \in dirs}
    \cup UNION {{Workdir(i) \o f : f \in fs[i]} : i \in dirs}

\* Path.exists()
Exists(p) == \E f \in AllFiles : IsPrefix(Resolve(<<>>, p), f)

\* The names workdir.glob("*") yields: the entries of the directory itself.
RootNames(id) == {f[1] : f \in fs[id]}

\* safe_first_py taking p_list[-1]: the last of the sorted names.
safe_first_py_Last(id) ==
  LET p_list == {n \in RootNames(id) : IsPy(n)}
  IN IF Exists(Workdir(id) \o <<"main.py">>) THEN Workdir(id) \o <<"main.py">>
     ELSE IF Exists(Workdir(id) \o <<"app.py">>) THEN Workdir(id) \o <<"app.py">>
     ELSE IF p_list = {} THEN NoPath
     ELSE Workdir(id) \o
            <<CHOOSE n \in p_list : \A m \in p_list : m = n \/ LexLess(Chars[m], Chars[n])>>

\* safe_first_py(workdir): main.py, then app.py, then the first of
\* sorted(workdir.glob("*.py")), else None.
safe_first_py(id) ==
  LET p_list == {n \in RootNames(id) : IsPy(n)}
  IN IF Exists(Workdir(id) \o <<"main.py">>) THEN Workdir(id) \o <<"main.py">>
     ELSE IF Exists(Workdir(id) \o <<"app.py">>) THEN Workdir(id) \o <<"app.py">>
     ELSE IF p_list = {} THEN NoPath
     ELSE Workdir(id) \o
            <<CHOOSE n \in p_list : \A m \in p_list : m = n \/ LexLess(Chars[n], Chars[m])>>

\* ------------------------------------------------------------- responses

\* The run ends with a response; nothing is cleaned up (lines 184-187).
Finish(r, response) ==
  /\ pc' = [pc EXCEPT ![r] = "end"]
  /\ resp' = [resp EXCEPT ![r] = response]

\* ---------------------------------------------------------------- actions

\* Lines 74-86: the token check, the file check, the run id and the mkdir.
AuthOk(t) == ~(apiKey # "" /\ t # apiKey)

\* Receive as it would be if the workspace were made before the token is
\* compared: a rejected request has drawn an id and created its directory.
Receive_AuthAfterMkdir(r) ==
  /\ pc[r] = "idle"
  /\ \E t \in Tokens, hasFile \in BOOLEAN, id \in RunIdsOf(r) :
       /\ authFailed' = [authFailed EXCEPT ![r] = ~AuthOk(t)]
       /\ runId' = [runId EXCEPT ![r] = id]
       /\ existed' = [existed EXCEPT ![r] = id \in dirs]
       /\ dirs' = dirs \cup {id}
       /\ IF ~AuthOk(t) THEN Finish(r, ErrorResp("Unauthorized", 401))
          ELSE IF ~hasFile THEN Finish(r, ErrorResp("NoFile", 400))
          ELSE pc' = [pc EXCEPT ![r] = "save"] /\ UNCHANGED resp
  /\ UNCHANGED <<bootExit, expired, apiKey, upload, manifestAtSave, argv, snapshot,
                 fs, pythonExec, entryParam, entry, spawned, launches, child,
                 program, outcome, rendered, stored, uploads>>

Receive(r) ==
  /\ pc[r] = "idle"
  /\ \E t \in Tokens, hasFile \in BOOLEAN :
       /\ authFailed' = [authFailed EXCEPT ![r] = ~AuthOk(t)]
       /\ IF ~AuthOk(t)
            THEN /\ Finish(r, ErrorResp("Unauthorized", 401))
                 /\ UNCHANGED <<dirs, runId, existed>>
          ELSE IF ~hasFile
            THEN /\ Finish(r, ErrorResp("NoFile", 400))
                 /\ UNCHANGED <<dirs, runId, existed>>
          ELSE \E id \in RunIdsOf(r) :
                 /\ runId' = [runId EXCEPT ![r] = id]
                 /\ existed' = [existed EXCEPT ![r] = id \in dirs]
                 /\ dirs' = dirs \cup {id}
                 /\ pc' = [pc EXCEPT ![r] = "save"]
                 /\ UNCHANGED resp
  /\ UNCHANGED <<bootExit, expired, apiKey, upload, manifestAtSave, argv, snapshot,
                 fs, pythonExec, entryParam, entry, spawned, launches, child,
                 program, outcome, rendered, stored, uploads>>

\* Lines 90-97: the upload is saved under its file name; an archive is
\* extracted into the directory and then removed.
Extracted(files, u) ==
  IF u.zip THEN (files \cup u.members) \ {<<u.filename>>}
  ELSE files \cup {<<u.filename>>}

SaveUpload(r) ==
  /\ pc[r] = "save"
  /\ \E u \in Uploads(r) :
       /\ fs' = [fs EXCEPT ![runId[r]] = Extracted(@, u)]
       /\ upload' = [upload EXCEPT ![r] = u]
       /\ manifestAtSave' =
            [manifestAtSave EXCEPT ![r] =
               <<"requirements.txt">> \in Extracted(fs[runId[r]], u)]
  /\ pc' = [pc EXCEPT ![r] = "bootstrap"]
  /\ UNCHANGED <<bootExit, expired, apiKey, authFailed, argv, snapshot,
                 dirs, runId, existed, pythonExec, entryParam, entry, spawned,
                 launches, child, program, outcome, rendered, stored, uploads, resp>>

\* Lines 101-112: with a requirements.txt in the directory, three child
\* processes in turn; check_call raises CalledProcessError on a non-zero
\* exit, which line 177 turns into the dependency-install response.
\* The non-zero exit codes of a child of worker r: the return code of
\* check_call, and proc.returncode of an entrypoint that exited by itself
\* with an error.
FailureCodes(r) == IF r = "w1" THEN 1..MaxExitCode ELSE {1}

ExitCodes(r) == {0} \cup FailureCodes(r)

DependencyInstallFailed == ErrorResp("DependencyInstallFailed", 500)

HasManifest(id) == Exists(Workdir(id) \o <<"requirements.txt">>)

VenvDir(id) == Workdir(id) \o <<".venv">>

\* CreateVenv as it would be if line 109 were missing: the environment is
\* created but python_exec keeps sys.executable.
CreateVenv_KeepsAmbient(r) ==
  /\ pc[r] = "bootstrap"
  /\ HasManifest(runId[r])
  /\ spawned' = [spawned EXCEPT ![r] = Append(@, "venv")]
  /\ \E rc \in ExitCodes(r) :
       /\ bootExit' = [bootExit EXCEPT ![r] = Append(@, rc)]
       /\ IF rc # 0
         THEN /\ Finish(r, DependencyInstallFailed)
              /\ UNCHANGED <<fs, pythonExec>>
         ELSE /\ fs' = [fs EXCEPT ![runId[r]] =
                          @ \cup {<<".venv", "bin", "python">>, <<".venv", "bin", "pip">>}]
              /\ pythonExec' = [pythonExec EXCEPT ![r] = SysExecutable]
              /\ pc' = [pc EXCEPT ![r] = "pip_upgrade"]
              /\ UNCHANGED resp
  /\ UNCHANGED <<expired, apiKey, upload, manifestAtSave, authFailed, argv, snapshot,
                 dirs, runId, existed, entryParam, entry, launches, child,
                 program, outcome, rendered, stored, uploads>>

\* CreateVenv as it would be without the test of line 105: the environment is
\* created whether or not requirements.txt exists.
CreateVenv_Unconditional(r) ==
  /\ pc[r] = "bootstrap"
  /\ spawned' = [spawned EXCEPT ![r] = Append(@, "venv")]
  /\ \E rc \in ExitCodes(r) :
       /\ bootExit' = [bootExit EXCEPT ![r] = Append(@, rc)]
       /\ IF rc # 0
         THEN /\ Finish(r, DependencyInstallFailed)
              /\ UNCHANGED <<fs, pythonExec>>
         ELSE /\ fs' = [fs EXCEPT ![runId[r]] =
                          @ \cup {<<".venv", "bin", "python">>, <<".venv", "bin", "pip">>}]
              /\ pythonExec' = [pythonExec EXCEPT ![r] = VenvDir(runId[r]) \o <<"bin", "python">>]
              /\ pc' = [pc EXCEPT ![r] = "pip_upgrade"]
              /\ UNCHANGED resp
  /\ UNCHANGED <<expired, apiKey, upload, manifestAtSave, authFailed, argv, snapshot,
                 dirs, runId, existed, entryParam, entry, launches, child,
                 program, outcome, rendered, stored, uploads>>

\* Line 107: [sys.executable, "-m", "venv", venv_dir]; then lines 108-109.
CreateVenv(r) ==
  /\ pc[r] = "bootstrap"
  /\ HasManifest(runId[r])
  /\ spawned' = [spawned EXCEPT ![r] = Append(@, "venv")]
  /\ \E rc \in ExitCodes(r) :
       /\ bootExit' = [bootExit EXCEPT ![r] = Append(@, rc)]
       /\ IF rc # 0
         THEN /\ Finish(r, DependencyInstallFailed)
              /\ UNCHANGED <<fs, pythonExec>>
         ELSE /\ fs' = [fs EXCEPT ![runId[r]] =
                          @ \cup {<<".venv", "bin", "python">>, <<".venv", "bin", "pip">>}]
              /\ pythonExec' = [pythonExec EXCEPT ![r] = VenvDir(runId[r]) \o <<"bin", "python">>]
              /\ pc' = [pc EXCEPT ![r] = "pip_upgrade"]
              /\ UNCHANGED resp
  /\ UNCHANGED <<expired, apiKey, upload, manifestAtSave, authFailed, argv, snapshot,
                 dirs, runId, existed, entryParam, entry, launches, child,
                 program, outcome, rendered, stored, uploads>>

\* Line 111 with subprocess.call in place of check_call: the exit code of the
\* upgrade is not looked at.
PipUpgrade_IgnoresExit(r) ==
  /\ pc[r] = "pip_upgrade"
  /\ spawned' = [spawned EXCEPT ![r] = Append(@, "pip_upgrade")]
  /\ \E rc \in ExitCodes(r) : bootExit' = [bootExit EXCEPT ![r] = Append(@, rc)]
  /\ pc' = [pc EXCEPT ![r] = "pip_install"]
  /\ UNCHANGED <<expired, apiKey, upload, manifestAtSave, authFailed, argv, snapshot,
                 dirs, fs, runId, existed, pythonExec, entryParam, entry,
                 launches, child, program, outcome, rendered, stored, uploads, resp>>

\* Line 111: pip install --upgrade pip setuptools wheel.
PipUpgrade(r) ==
  /\ pc[r] = "pip_upgrade"
  /\ spawned' = [spawned EXCEPT ![r] = Append(@, "pip_upgrade")]
  /\ \E rc \in ExitCodes(r) :
       /\ bootExit' = [bootExit EXCEPT ![r] = Append(@, rc)]
       /\ IF rc # 0
         THEN Finish(r, DependencyInstallFailed)
         ELSE pc' = [pc EXCEPT ![r] = "pip_install"] /\ UNCHANGED resp
  /\ UNCHANGED <<expired, apiKey, upload, manifestAtSave, authFailed, argv, snapshot,
                 dirs, fs, runId, existed, pythonExec, entryParam, entry,
                 launches, child, program, outcome, rendered, stored, uploads>>

\* Line 112: pip install -r requirements.txt.
PipInstall(r) ==
  /\ pc[r] = "pip_install"
  /\ spawned' = [spawned EXCEPT ![r] = Append(@, "pip_install")]
  /\ \E rc \in ExitCodes(r) :
       /\ bootExit' = [bootExit EXCEPT ![r] = Append(@, rc)]
       /\ IF rc # 0
         THEN Finish(r, DependencyInstallFailed)
         ELSE pc' = [pc EXCEPT ![r] = "resolve"] /\ UNCHANGED resp
  /\ UNCHANGED <<expired, apiKey, upload, manifestAtSave, authFailed, argv, snapshot,
                 dirs, fs, runId, existed, pythonExec, entryParam, entry,
                 launches, child, program, outcome, rendered, stored, uploads>>

\* Lines 103-105 without a requirements.txt: python_exec stays sys.executable.
SkipBootstrap(r) ==
  /\ pc[r] = "bootstrap"
  /\ ~HasManifest(runId[r])
  /\ pythonExec' = [pythonExec EXCEPT ![r] = SysExecutable]
  /\ pc' = [pc EXCEPT ![r] = "resolve"]
  /\ UNCHANGED <<bootExit, expired, apiKey, upload, manifestAtSave, authFailed, argv, snapshot,
                 dirs, fs, runId, existed, entryParam, entry, spawned, launches,
                 child, program, outcome, rendered, stored, uploads, resp>>

\* Lines 115-122: the entry form field when the path it names exists, else
\* safe_first_py.
ResolveEntry(id, param) ==
  IF param.given /\ Exists(Join(Workdir(id), param))
    THEN Join(Workdir(id), param)
    ELSE safe_first_py(id)

\* Lines 115-125.
ResolveEntrypoint(r) ==
  /\ pc[r] = "resolve"
  /\ \E param \in EntryParams(r) :
       LET e == ResolveEntry(runId[r], param)
       IN /\ entryParam' = [entryParam EXCEPT ![r] = param]
          /\ entry' = [entry EXCEPT ![r] = e]
          /\ IF e = NoPath
               THEN Finish(r, ErrorResp("NoEntrypoint", 400))
               ELSE pc' = [pc EXCEPT ![r] = "launch"] /\ UNCHANGED resp
  /\ UNCHANGED <<bootExit, expired, apiKey, upload, manifestAtSave, authFailed, argv, snapshot,
                 dirs, fs, runId, existed, pythonExec, spawned, launches, child,
                 program, outcome, rendered, stored, uploads>>

\* What the uploaded program does when nothing stops it: it exits, it never
\* exits and uses at most one CPU (it sleeps, or loops in one thread), or it
\* never exits and uses CPU time faster than the wall clock advances.
Programs(r) == IF r = "w1" THEN {"halts", "loops", "burns"} ELSE {"halts"}

\* Lines 132-139, the start of subprocess.run: Popen either starts the child
\* [python_exec, entry] with set_limits as preexec_fn, or raises.
Launch(r) ==
  /\ pc[r] = "launch"
  /\ launches' = [launches EXCEPT ![r] = @ + 1]
  /\ argv' = [argv EXCEPT ![r] = <<pythonExec[r], entry[r]>>]
  /\ \/ \E p \in Programs(r) :
          /\ program' = [program EXCEPT ![r] = p]
          /\ child' = [child EXCEPT ![r] = "running"]
          /\ spawned' = [spawned EXCEPT ![r] = Append(@, "entry")]
          /\ pc' = [pc EXCEPT ![r] = "wait"]
          /\ UNCHANGED outcome
     \/ /\ outcome' = [outcome EXCEPT ![r] = [NoOutcome EXCEPT !.tag = "LaunchError"]]
        /\ pc' = [pc EXCEPT ![r] = "render"]
        /\ UNCHANGED <<program, child, spawned>>
  /\ UNCHANGED <<bootExit, expired, apiKey, upload, manifestAtSave, authFailed, snapshot,
                 dirs, fs, runId, existed, pythonExec, entryParam, entry,
                 rendered, stored, uploads, resp>>

\* ChildExit as it would be with a retry: after a non-zero exit the
\* entrypoint is launched again.
ChildExit_Retries(r) ==
  /\ pc[r] = "wait"
  /\ program[r] = "halts"
  /\ child' = [child EXCEPT ![r] = "exited"]
  /\ \/ /\ \E out \in Stdouts(r) :
             outcome' = [outcome EXCEPT ![r] =
                           [tag |-> "Success", stdout |-> out, stderr |-> <<>>, code |-> 0]]
        /\ fs' = [fs EXCEPT ![runId[r]] = @ \cup {<<"out.dat">>}]
     \/ /\ \E code \in FailureCodes(r) :
             outcome' = [outcome EXCEPT ![r] =
                           [tag |-> "Failure", stdout |-> <<104, 105>>, stderr |-> STDERR_TEXT,
                            code |-> code]]
        /\ UNCHANGED fs
  /\ pc' = [pc EXCEPT ![r] = IF outcome'[r].code # 0 THEN "launch" ELSE "render"]
  /\ UNCHANGED <<bootExit, expired, apiKey, upload, manifestAtSave, authFailed, argv, snapshot,
                 dirs, runId, existed, pythonExec, entryParam, entry, spawned,
                 launches, program, rendered, stored, uploads, resp>>

\* subprocess.run returns: the child exited by itself before the timeout.
ChildExit(r) ==
  /\ pc[r] = "wait"
  /\ program[r] = "halts"
  /\ child' = [child EXCEPT ![r] = "exited"]
  /\ \/ /\ \E out \in Stdouts(r) :
             outcome' = [outcome EXCEPT ![r] =
                           [tag |-> "Success", stdout |-> out, stderr |-> <<>>, code |-> 0]]
        /\ fs' = [fs EXCEPT ![runId[r]] = @ \cup {<<"out.dat">>}]
     \/ /\ \E code \in FailureCodes(r) :
             outcome' = [outcome EXCEPT ![r] =
                           [tag |-> "Failure", stdout |-> <<104, 105>>, stderr |-> STDERR_TEXT,
                            code |-> code]]
        /\ UNCHANGED fs
  /\ pc' = [pc EXCEPT ![r] = "render"]
  /\ UNCHANGED <<bootExit, expired, apiKey, upload, manifestAtSave, authFailed, argv, snapshot,
                 dirs, runId, existed, pythonExec, entryParam, entry, spawned,
                 launches, program, rendered, stored, uploads, resp>>

\* Line 148 missing: TimeoutExpired reaches the handler of line 180.
TimeoutExpire_Aborts(r) ==
  /\ pc[r] = "wait"
  /\ child[r] = "running"
  /\ child' = [child EXCEPT ![r] = "killed"]
  /\ outcome' = [outcome EXCEPT ![r] =
                   [tag |-> "TimedOut", stdout |-> NONE_REPR, stderr |-> NONE_REPR, code |-> 0]]
  /\ expired' = [expired EXCEPT ![r] = TRUE]
  /\ Finish(r, ErrorResp("ServerError", 500))
  /\ UNCHANGED <<bootExit, apiKey, upload, manifestAtSave, authFailed, argv, snapshot,
                 dirs, fs, runId, existed, pythonExec, entryParam, entry,
                 spawned, launches, program, rendered, stored, uploads>>

\* Popen.communicate(timeout=...) in place of subprocess.run: TimeoutExpired
\* is raised and the child is left running.
TimeoutExpire_LeavesChild(r) ==
  /\ pc[r] = "wait"
  /\ child[r] = "running"
  /\ outcome' = [outcome EXCEPT ![r] =
                   [tag |-> "TimedOut", stdout |-> NONE_REPR, stderr |-> NONE_REPR, code |-> 0]]
  /\ expired' = [expired EXCEPT ![r] = TRUE]
  /\ pc' = [pc EXCEPT ![r] = "render"]
  /\ UNCHANGED <<bootExit, apiKey, upload, manifestAtSave, authFailed, argv, snapshot,
                 dirs, fs, runId, existed, pythonExec, entryParam, entry,
                 spawned, launches, child, program, rendered, stored, uploads, resp>>

\* subprocess.run without timeout=: the deadline never comes.
TimeoutExpire_NoTimeout(r) ==
  /\ pc[r] = "wait"
  /\ child[r] = "running"
  /\ FALSE
  /\ UNCHANGED vars

\* timeout=MAX_RUN_SECONDS (line 137): at the deadline subprocess.run kills
\* the child, waits for it and raises TimeoutExpired (caught at line 148).
TimeoutExpire(r) ==
  /\ pc[r] = "wait"
  /\ child[r] = "running"
  /\ child' = [child EXCEPT ![r] = "killed"]
  /\ outcome' = [outcome EXCEPT ![r] =
                   [tag |-> "TimedOut", stdout |-> NONE_REPR, stderr |-> NONE_REPR, code |-> 0]]
  /\ pc' = [pc EXCEPT ![r] = "render"]
  /\ expired' = [expired EXCEPT ![r] = TRUE]
  /\ UNCHANGED <<bootExit, apiKey, upload, manifestAtSave, authFailed, argv, snapshot,
                 dirs, fs, runId, existed, pythonExec, entryParam, entry, spawned,
                 launches, program, rendered, stored, uploads, resp>>

\* set_limits (lines 39-51): RLIMIT_CPU is MAX_RUN_SECONDS of CPU time, so
\* the kernel ends a child that has used that much before the wall-clock
\* deadline with SIGXCPU (24); subprocess.run then returns -24.
CpuLimitKill(r) ==
  /\ pc[r] = "wait"
  /\ child[r] = "running"
  /\ program[r] = "burns"
  /\ child' = [child EXCEPT ![r] = "killed"]
  /\ outcome' = [outcome EXCEPT ![r] =
                   [tag |-> "Failure", stdout |-> <<>>, stderr |-> <<>>, code |-> -24]]
  /\ pc' = [pc EXCEPT ![r] = "render"]
  /\ UNCHANGED <<bootExit, expired, apiKey, upload, manifestAtSave, authFailed, argv, snapshot,
                 dirs, fs, runId, existed, pythonExec, entryParam, entry, spawned,
                 launches, program, rendered, stored, uploads, resp>>

\* Lines 140-152: combined, by the way subprocess.run ended.
Render(o) ==
  CASE o.tag = "Success" -> o.stdout
    [] o.tag = "Failure" ->
         HDR_STDOUT \o o.stdout \o HDR_STDERR \o o.stderr \o HDR_EXIT \o IntStr(o.code)
    [] o.tag = "TimedOut" ->
         TIMEOUT_PRE \o IntStr(MAX_RUN_SECONDS) \o TIMEOUT_MID \o o.stdout \o <<10>> \o o.stderr
    [] o.tag = "LaunchError" -> EXC_PRE \o TRACEBACK

\* Lines 155-156.
Truncate(combined) ==
  IF Len(combined) > MAX_OUTPUT_BYTES
    THEN Prefix(combined, MAX_OUTPUT_BYTES) \o TRUNC_MARKER
    ELSE combined

\* Lines 140-158: render, truncate, write output.txt.
WriteOutput(r) ==
  /\ pc[r] = "render"
  /\ rendered' = [rendered EXCEPT ![r] = Render(outcome[r])]
  /\ stored' = [stored EXCEPT ![r] = Utf8(Truncate(Render(outcome[r])))]
  /\ fs' = [fs EXCEPT ![runId[r]] = @ \cup {<<"output.txt">>}]
  /\ pc' = [pc EXCEPT ![r] = "put_output"]
  /\ UNCHANGED <<bootExit, expired, apiKey, upload, manifestAtSave, authFailed, argv, snapshot,
                 dirs, runId, existed, pythonExec, entryParam, entry, spawned,
                 launches, child, program, outcome, uploads, resp>>

\* The keys of lines 161 and 167.
OutputKey(id) == <<"outputs", id, "txt">>
BundleKey(id) == <<"bundles", id, "zip">>

\* upload_to_s3 raising (line 55) is caught at line 180.
ServerError == ErrorResp("ServerError", 500)

\* UploadOutput as it would be if a failed upload of the output were
\* swallowed: the run goes on to the bundle.
UploadOutput_IgnoresFailure(r) ==
  /\ pc[r] = "put_output"
  /\ \E ok \in BOOLEAN :
       /\ uploads' = [uploads EXCEPT ![r] = Append(@, [key |-> OutputKey(runId[r]), ok |-> ok])]
       /\ pc' = [pc EXCEPT ![r] = "bundle"]
       /\ UNCHANGED resp
  /\ UNCHANGED <<bootExit, expired, apiKey, upload, manifestAtSave, authFailed, argv, snapshot,
                 dirs, fs, runId, existed, pythonExec, entryParam, entry, spawned,
                 launches, child, program, outcome, rendered, stored>>

\* Lines 161-162: s3.upload_file either stores the object or raises.
UploadOutput(r) ==
  /\ pc[r] = "put_output"
  /\ \E ok \in BOOLEAN :
       /\ uploads' = [uploads EXCEPT ![r] = Append(@, [key |-> OutputKey(runId[r]), ok |-> ok])]
       /\ IF ok THEN pc' = [pc EXCEPT ![r] = "bundle"] /\ UNCHANGED resp
          ELSE Finish(r, ServerError)
  /\ UNCHANGED <<bootExit, expired, apiKey, upload, manifestAtSave, authFailed, argv, snapshot,
                 dirs, fs, runId, existed, pythonExec, entryParam, entry, spawned,
                 launches, child, program, outcome, rendered, stored>>

\* The files a run produces in its workspace: the output text, the file its
\* child writes and the environment it installs.  The record of an archive
\* keeps the members among these and leaves out the uploaded sources.
Products ==
  {<<"output.txt">>, <<"out.dat">>, <<".venv", "bin", "python">>, <<".venv", "bin", "pip">>}

\* MakeBundle as it would be if the archive could be made as soon as the
\* execution has returned, before output.txt is written and uploaded.
MakeBundle_BeforeOutput(r) ==
  /\ pc[r] \in {"render", "bundle"}
  /\ snapshot' = [snapshot EXCEPT ![r] =
                   [taken |-> TRUE, files |-> fs[runId[r]] \cap Products]]
  /\ fs' = [fs EXCEPT ![runId[r]] = @ \cup {<<"bundle.zip">>}]
  /\ pc' = [pc EXCEPT ![r] = "put_bundle"]
  /\ UNCHANGED <<bootExit, expired, apiKey, upload, manifestAtSave, authFailed, argv,
                 dirs, runId, existed, pythonExec, entryParam, entry, spawned,
                 launches, child, program, outcome, rendered, stored, uploads, resp>>

\* Lines 165-166: shutil.make_archive writes bundle.zip into the directory.
MakeBundle(r) ==
  /\ pc[r] = "bundle"
  /\ snapshot' = [snapshot EXCEPT ![r] =
                   [taken |-> TRUE, files |-> fs[runId[r]] \cap Products]]
  /\ fs' = [fs EXCEPT ![runId[r]] = @ \cup {<<"bundle.zip">>}]
  /\ pc' = [pc EXCEPT ![r] = "put_bundle"]
  /\ UNCHANGED <<bootExit, expired, apiKey, upload, manifestAtSave, authFailed, argv,
                 dirs, runId, existed, pythonExec, entryParam, entry, spawned,
                 launches, child, program, outcome, rendered, stored, uploads, resp>>

\* UploadBundle as it would be with the shutil.rmtree of the finally block
\* (line 186) in force: the workspace is removed when the run ends.
UploadBundle_Cleans(r) ==
  /\ pc[r] = "put_bundle"
  /\ dirs' = dirs \ {runId[r]}
  /\ \E ok \in BOOLEAN :
       /\ uploads' = [uploads EXCEPT ![r] = Append(@, [key |-> BundleKey(runId[r]), ok |-> ok])]
       /\ IF ok
            THEN Finish(r, [kind |-> "done", status |-> 200, run_id |-> runId[r],
                            output_url |-> OutputKey(runId[r]),
                            bundle_url |-> BundleKey(runId[r])])
            ELSE Finish(r, ServerError)
  /\ UNCHANGED <<bootExit, expired, apiKey, upload, manifestAtSave, authFailed, argv, snapshot,
                 fs, runId, existed, pythonExec, entryParam, entry, spawned,
                 launches, child, program, outcome, rendered, stored>>

\* UploadBundle as it would be if a failed upload of the bundle were
\* swallowed: the success response is returned all the same.
UploadBundle_IgnoresFailure(r) ==
  /\ pc[r] = "put_bundle"
  /\ \E ok \in BOOLEAN :
       /\ uploads' = [uploads EXCEPT ![r] = Append(@, [key |-> BundleKey(runId[r]), ok |-> ok])]
       /\ Finish(r, [kind |-> "done", status |-> 200, run_id |-> runId[r],
                      output_url |-> OutputKey(runId[r]),
                      bundle_url |-> BundleKey(runId[r])])
  /\ UNCHANGED <<bootExit, expired, apiKey, upload, manifestAtSave, authFailed, argv, snapshot,
                 dirs, fs, runId, existed, pythonExec, entryParam, entry, spawned,
                 launches, child, program, outcome, rendered, stored>>

\* Lines 167-175: the second upload, then the success response.
UploadBundle(r) ==
  /\ pc[r] = "put_bundle"
  /\ \E ok \in BOOLEAN :
       /\ uploads' = [uploads EXCEPT ![r] = Append(@, [key |-> BundleKey(runId[r]), ok |-> ok])]
       /\ IF ok
            THEN Finish(r, [kind |-> "done", status |-> 200, run_id |-> runId[r],
                            output_url |-> OutputKey(runId[r]),
                            bundle_url |-> BundleKey(runId[r])])
            ELSE Finish(r, ServerError)
  /\ UNCHANGED <<bootExit, expired, apiKey, upload, manifestAtSave, authFailed, argv, snapshot,
                 dirs, fs, runId, existed, pythonExec, entryParam, entry, spawned,
                 launches, child, program, outcome, rendered, stored>>

\* One step of run_upload in worker r.
Step(r) ==
  \/ Receive(r)
  \/ SaveUpload(r)
  \/ CreateVenv(r)
  \/ PipUpgrade(r)
  \/ PipInstall(r)
  \/ SkipBootstrap(r)
  \/ ResolveEntrypoint(r)
  \/ Launch(r)
  \/ ChildExit(r)
  \/ TimeoutExpire(r)
  \/ CpuLimitKill(r)
  \/ WriteOutput(r)
  \/ UploadOutput(r)
  \/ MakeBundle(r)
  \/ UploadBundle(r)

Next == \E r \in Runs : Step(r)

Spec == Init /\ [][Next]_vars

\* ---------------------------------------------------------------- claims

Ended(r) == pc[r] = "end"

\* C1: a run that ends with the no-entrypoint error has spawned no child
\* process of any kind before (no environment creation, no installer, no
\* entrypoint), also when the upload holds a manifest and no script.
C1_NoEntrypointBeforeAnySpawn ==
  \A r \in Runs : resp[r].kind = "NoEntrypoint" => spawned[r] = <<>>

\* C2: when a dependency-bootstrap step exits non-zero, the run has ended
\* with the dependency-install error, the failing step is the last one that
\* was attempted, the entrypoint was never launched and nothing was uploaded.
C2_BootstrapFailureIsFatal ==
  \A r \in Runs :
    \A i \in 1..Len(bootExit[r]) :
      bootExit[r][i] # 0 =>
        /\ Ended(r)
        /\ resp[r].kind = "DependencyInstallFailed"
        /\ i = Len(bootExit[r])
        /\ Len(spawned[r]) = i
        /\ launches[r] = 0
        /\ child[r] = "none"
        /\ uploads[r] = <<>>

\* The tooling upgrade failed after the environment was created.
C2_Witness ==
  \E r \in Runs : bootExit[r] = <<0, 2>> /\ Ended(r)

ExecutionFailures == {"TimedOut", "Failure", "LaunchError"}

AllUploadsOk(r) == \A i \in 1..Len(uploads[r]) : uploads[r][i].ok

\* C3: a timeout, a non-zero exit or a launch failure does not abort the
\* run: the run ends only after the publish stage was reached, the outcome
\* is rendered into the output text, and when no upload fails the run
\* returns the success result with both artifact URLs.
C3_ExecutionFailureIsPublished ==
  \A r \in Runs :
    outcome[r].tag \in ExecutionFailures =>
      /\ Ended(r) => /\ uploads[r] # <<>>
                     /\ rendered[r] # NoText
                     /\ stored[r] # NoText
      /\ (Ended(r) /\ AllUploadsOk(r)) =>
           /\ resp[r].kind = "done"
           /\ resp[r].run_id = runId[r]
           /\ resp[r].output_url = OutputKey(runId[r])
           /\ resp[r].bundle_url = BundleKey(runId[r])
           /\ Len(uploads[r]) = 2

\* Both workers returned the success result, one after a timeout and one
\* after a non-zero exit.
C3_Witness ==
  /\ outcome["w1"].tag = "TimedOut" /\ resp["w1"].kind = "done"
  /\ outcome["w2"].tag = "Failure" /\ resp["w2"].kind = "done"

\* C4: when the timeout expires while the child is running, the outcome of
\* the execution stage is TimedOut, and the child is not running once the
\* stage has returned nor at any later stage of the run.
C4_TimeoutKillsChild ==
  \A r \in Runs :
    expired[r] =>
      /\ outcome[r].tag = "TimedOut"
      /\ child[r] = "killed"
      /\ pc[r] \in {"render", "put_output", "bundle", "put_bundle", "end"}

\* A run ended after its timeout expired.
C4_Witness ==
  \E r \in Runs : expired[r] /\ Ended(r)

\* C6: when the rendered text is larger than the ceiling, measured in UTF-8
\* bytes, the stored artifact is exactly the first `ceiling` bytes of the
\* rendered text followed by the truncation marker.
C6_TruncatedAtByteCeiling ==
  \A r \in Runs :
    (stored[r] # NoText /\ Len(Utf8(rendered[r])) > MAX_OUTPUT_BYTES) =>
      stored[r] = Prefix(Utf8(rendered[r]), MAX_OUTPUT_BYTES) \o Utf8(TRUNC_MARKER)

\* C7: a run whose directory already existed when it allocated its workspace
\* has failed with WorkspaceCollision, and has written no file, spawned no
\* process and uploaded nothing.
C7_CollisionIsFatal ==
  \A r \in Runs :
    existed[r] =>
      /\ Ended(r)
      /\ resp[r].kind = "WorkspaceCollision"
      /\ spawned[r] = <<>>
      /\ uploads[r] = <<>>

\* C8: no two distinct runs use the same workspace directory.
C8_WorkspacesAreDisjoint ==
  \A r1, r2 \in Runs :
    (r1 # r2 /\ runId[r1] # "" /\ runId[r2] # "") => runId[r1] # runId[r2]

\* The file a path names lies below the directory.
Inside(dir, path) == IsPrefix(dir, Resolve(<<>>, path)) /\ Resolve(<<>>, path) # dir

\* C9: the file a run launches lies inside that run's workspace.
C9_EntryInsideWorkspace ==
  \A r \in Runs : launches[r] > 0 => Inside(Workdir(runId[r]), entry[r])

\* The entry a resolution must yield for directory id with the files `files`
\* below it, by the priority of the claim.
PyAtRoot(id) == {n \in RootNames(id) : IsPy(n)}

FollowsPriority(id, param, e) ==
  LET cand == Join(Workdir(id), param)
      byParam == param.given /\ Exists(cand)
      root == RootNames(id)
  IN /\ byParam => e = cand
     /\ (~byParam /\ "main.py" \in root) => e = Workdir(id) \o <<"main.py">>
     /\ (~byParam /\ "main.py" \notin root /\ "app.py" \in root) =>
          e = Workdir(id) \o <<"app.py">>
     /\ (~byParam /\ "main.py" \notin root /\ "app.py" \notin root /\ PyAtRoot(id) # {}) =>
          \E n \in PyAtRoot(id) :
            /\ e = Workdir(id) \o <<n>>
            /\ \A m \in PyAtRoot(id) : ~LexLess(Chars[m], Chars[n])
     /\ (e = NoPath) <=> (~byParam /\ PyAtRoot(id) = {})

\* C10: every resolution step follows the priority override, main.py,
\* app.py, smallest *.py of the workspace root, and ends the run with the
\* no-entrypoint error exactly when none of them exists.
C10_ResolutionPriority ==
  [][\A r \in Runs :
       (pc[r] = "resolve" /\ pc'[r] # "resolve") =>
         /\ FollowsPriority(runId[r], entryParam'[r], entry'[r])
         /\ (resp'[r].kind = "NoEntrypoint") <=> (entry'[r] = NoPath)
         /\ (pc'[r] = "launch") <=> (entry'[r] # NoPath)]_vars

\* The fourth rule decided: a.py was chosen although b.py is there too and
\* a main.py lies in a subdirectory.
C10_Witness ==
  \E r \in Runs :
    /\ entry[r] = Workdir(runId[r]) \o <<"a.py">>
    /\ {<<"b.py">>, <<"sub", "main.py">>} \subseteq fs[runId[r]]
    /\ pc[r] = "launch"

\* The timer of subprocess.run fires, and a worker whose blocking call can
\* return (the write of output.txt, an upload, the archive) does return.
Fairness(r) ==
  /\ WF_vars(TimeoutExpire(r))
  /\ WF_vars(WriteOutput(r))
  /\ WF_vars(UploadOutput(r))
  /\ WF_vars(MakeBundle(r))
  /\ WF_vars(UploadBundle(r))

\* One request, served by worker w1 while no other request is in flight: no
\* step of a worker waits for another worker, so the progress of a run does
\* not depend on the other runs.
FairSpec == Init /\ [][Step("w1")]_vars /\ Fairness("w1")

NeverExits(r) == program[r] \in {"loops", "burns"}

ExecutionReturned(r) == pc[r] \in {"render", "put_output", "bundle", "put_bundle", "end"}

VenvPython(id) == VenvDir(id) \o <<"bin", "python">>

\* C11: a run whose workspace root held requirements.txt once its upload was
\* saved and extracted, and whose entrypoint was launched, launched it with
\* the interpreter of the environment in its own workspace, never with the
\* ambient interpreter.
C11_ManifestRunsUseProvisionedInterpreter ==
  \A r \in Runs :
    (manifestAtSave[r] /\ launches[r] > 0) =>
      /\ argv[r][1] = VenvPython(runId[r])
      /\ IsPrefix(Workdir(runId[r]), argv[r][1])
      /\ argv[r][1] # SysExecutable

\* A run with a manifest installed its dependencies and launched its entrypoint.
C11_Witness ==
  \E r \in Runs :
    /\ manifestAtSave[r]
    /\ bootExit[r] = <<0, 0, 0>>
    /\ launches[r] = 1
    /\ argv[r][1] = VenvPython(runId[r])

\* The upload of run r is one script, saved under its own name.
SingleScript(r) == upload[r] # NoUpload /\ ~upload[r].zip /\ IsPy(upload[r].filename)

\* The root of the workspace of run r holds no requirements.txt.
NoManifest(r) == <<"requirements.txt">> \notin fs[runId[r]]

\* C12: a run whose upload is a single script and whose workspace holds no
\* requirements.txt has spawned neither the environment creation nor the
\* installer, and if it launched its entrypoint it used the ambient interpreter.
C12_NoManifestNoBootstrap ==
  \A r \in Runs :
    (SingleScript(r) /\ NoManifest(r)) =>
      /\ \A i \in 1..Len(spawned[r]) : spawned[r][i] = "entry"
      /\ bootExit[r] = <<>>
      /\ launches[r] > 0 => argv[r][1] = SysExecutable

\* A single script without a manifest was launched with the ambient interpreter.
C12_Witness ==
  \E r \in Runs :
    /\ SingleScript(r)
    /\ NoManifest(r)
    /\ spawned[r] = <<"entry">>
    /\ argv[r][1] = SysExecutable
    /\ Ended(r)

\* C13: with a secret configured, a token that is absent or different is
\* rejected, and a run whose token was rejected has ended Unauthorized having
\* drawn no id, created no directory, spawned no process and uploaded nothing.
C13_UnauthorizedTouchesNothing ==
  /\ \A t \in Tokens : (apiKey # "" /\ t # apiKey) => ~AuthOk(t)
  /\ \A r \in Runs :
       authFailed[r] =>
         /\ Ended(r)
         /\ resp[r] = ErrorResp("Unauthorized", 401)
         /\ runId[r] = ""
         /\ ~existed[r]
         /\ spawned[r] = <<>>
         /\ launches[r] = 0
         /\ uploads[r] = <<>>

\* A request with a wrong token was rejected while a secret was configured.
C13_Witness ==
  \E r \in Runs :
    /\ apiKey = "secret"
    /\ authFailed[r]
    /\ resp[r].kind = "Unauthorized"

\* Some upload of run r to the object store failed.
PublishFailed(r) == \E i \in 1..Len(uploads[r]) : ~uploads[r][i].ok

\* C14 as claimed: a run that ended because publishing failed reports the
\* error kind PublishFailed, which differs from the dependency-install kind
\* and is not the generic internal error.
C14_PublishFailureHasOwnKind ==
  \A r \in Runs :
    (Ended(r) /\ PublishFailed(r)) =>
      /\ resp[r].kind = "PublishFailed"
      /\ resp[r].kind # "ServerError"
      /\ resp[r].kind # DependencyInstallFailed.kind

\* C15 as claimed: the output artifact a run stored is at most
\* MAX_OUTPUT_BYTES bytes long.
C15_StoredWithinCeiling ==
  \A r \in Runs : stored[r] # NoText => Len(stored[r]) <= MAX_OUTPUT_BYTES

\* C16: a run whose upload of the output failed has ended with an error after
\* that single upload, without making or uploading the bundle; a run whose
\* upload of the bundle failed after the output was stored has ended with an
\* error; neither response carries an artifact URL.
C16_PublishingIsFailFast ==
  \A r \in Runs :
    /\ (Len(uploads[r]) >= 1 /\ ~uploads[r][1].ok) =>
         /\ Ended(r)
         /\ Len(uploads[r]) = 1
         /\ ~snapshot[r].taken
         /\ resp[r].kind \notin {"none", "done"}
         /\ resp[r].status >= 400
         /\ resp[r].output_url = <<>> /\ resp[r].bundle_url = <<>>
    /\ (Len(uploads[r]) >= 2 /\ uploads[r][1].ok /\ ~uploads[r][2].ok) =>
         /\ Ended(r)
         /\ Len(uploads[r]) = 2
         /\ resp[r].kind \notin {"none", "done"}
         /\ resp[r].status >= 400
         /\ resp[r].output_url = <<>> /\ resp[r].bundle_url = <<>>

\* One run ended on a failed upload of its output, the other on a failed
\* upload of its bundle.
C16_Witness ==
  \E r, q \in Runs :
    /\ Ended(r) /\ Len(uploads[r]) = 1 /\ ~uploads[r][1].ok
    /\ Ended(q) /\ Len(uploads[q]) = 2 /\ uploads[q][1].ok /\ ~uploads[q][2].ok

\* Run r has reached the execution stage: subprocess.run was called.
ReachedExecution(r) ==
  \/ pc[r] \in {"wait", "render", "put_output", "bundle", "put_bundle"}
  \/ outcome[r].tag # "none"

\* The number of entrypoint processes run r has spawned.
EntrySpawns(r) == Cardinality({i \in 1..Len(spawned[r]) : spawned[r][i] = "entry"})

\* C17: a run launches its entrypoint at most once, and exactly once when it
\* has reached the execution stage, whatever the outcome.
C17_LaunchedExactlyOnce ==
  \A r \in Runs :
    /\ launches[r] <= 1
    /\ EntrySpawns(r) <= launches[r]
    /\ ReachedExecution(r) <=> launches[r] = 1

\* Runs ended after a non-zero exit and after a timeout, each launched once.
C17_Witness ==
  \E r, q \in Runs :
    /\ Ended(r) /\ outcome[r].tag = "Failure" /\ launches[r] = 1
    /\ Ended(q) /\ outcome[q].tag = "TimedOut" /\ launches[q] = 1

\* The execution stage of run r has returned its outcome and left no child.
ExecutionDone(r) == outcome[r].tag # "none" /\ child[r] # "running"

C19_WorkspaceIsRetained ==
  \A r \in Runs : runId[r] # "" => runId[r] \in dirs

\* Runs ended on a publish failure and on a dependency-install failure; both
\* workspaces are still there.
C19_Witness ==
  \E r, q \in Runs :
    /\ Ended(r) /\ resp[r].kind = "ServerError" /\ runId[r] \in dirs
    /\ Ended(q) /\ resp[q].kind = "DependencyInstallFailed" /\ runId[q] \in dirs
    /\ runId[r] # runId[q]

\* C20: a run that returned the success result performed exactly two
\* uploads, both successful, of outputs/<run_id>.txt and then of
\* bundles/<run_id>.zip, and its response names that run id and those objects.
C20_SuccessMeansBothStored ==
  \A r \in Runs :
    resp[r].kind = "done" =>
      /\ runId[r] # ""
      /\ resp[r].run_id = runId[r]
      /\ uploads[r] = << [key |-> <<"outputs", runId[r], "txt">>, ok |-> TRUE],
                         [key |-> <<"bundles", runId[r], "zip">>, ok |-> TRUE] >>
      /\ resp[r].output_url = <<"outputs", runId[r], "txt">>
      /\ resp[r].bundle_url = <<"bundles", runId[r], "zip">>

\* A run returned the success result.
C20_Witness ==
  \E r \in Runs : Ended(r) /\ resp[r].kind = "done" /\ Len(uploads[r]) = 2

====
